---------------------------- MODULE Spec2Model ----------------------------
(***************************************************************************)
(* The Ayla session of sharkiqpy (src/sharkiqpy/ayla_api.py): sign-in,     *)
(* token refresh, sign-out and the authenticated request, driven by a      *)
(* server whose replies are chosen nondeterministically and by a clock.    *)
(*                                                                         *)
(* A Python value that may be None is a sequence of length at most one:    *)
(* None is << >> and a value x is <<x>>.  A dict is a function whose       *)
(* DOMAIN is its set of keys; a str is a sequence of pieces, so that +     *)
(* is \o.  Every method is an operator from the object (self) and the      *)
(* server's replies to a Result: the object afterwards, the exception      *)
(* that left the method (NoExc when it returned), the exception's message  *)
(* and the HTTP calls the method issued, in order.                         *)
(***************************************************************************)
EXTENDS Integers, Sequences, FiniteSets, TLC

VARIABLES
    api,      \* the AylaApi object: _access_token, _refresh_token, _auth_expiration, _is_authed
    now,      \* datetime.now(), in seconds
    ticks,    \* how many times the clock has advanced
    last,     \* the call that returned (or raised) in the step that led here
    issued,   \* the refresh tokens the server returned to the latest successful
              \* sign-ins and refreshes (the last two of them, oldest first) that no
              \* failed sign-in or refresh and no sign-out has followed
    vac,      \* a SharkIqVacuum object: properties_full, _settable_properties
    vac2,     \* a second SharkIqVacuum object on the same session
    tasks     \* the coroutines in flight: where each one is suspended, and what
              \* it has done so far

vars == <<api, now, ticks, issued, vac, vac2, tasks, last>>

---------------------------------------------------------------------------
\* Bounds and inputs

MaxTicks == 2

ClockSteps == {60, 3601}

AccessTokens == {"T1", "T2"}

RefreshTokens == {"R1", "R2"}

ExpiresInValues == {60, 3600}

ErrorTexts == {<<"Invalid email or password">>, <<"Could not find application">>}

None == << >>

Some(x) == <<x>>

NoExc == "returned"

---------------------------------------------------------------------------
\* The server

Restrict(f, S) == [k \in S |-> f[k]]

LoginBodies ==
    {[access_token |-> a, refresh_token |-> r, expires_in |-> e] :
        a \in AccessTokens, r \in RefreshTokens, e \in ExpiresInValues}

\* A body that lacks some of the keys: the keys kept of one complete body.
IncompleteBodies ==
    {Restrict([access_token |-> "T2", refresh_token |-> "R2", expires_in |-> 3600], S) :
        S \in (SUBSET {"access_token", "refresh_token", "expires_in"})
              \ {{"access_token", "refresh_token", "expires_in"}}}

ErrorBodies == {[error |-> t] : t \in ErrorTexts}

Reply(status_code, json) == [raised |-> NoExc, status_code |-> status_code, json |-> json]

ConnectionError == [raised |-> "ConnectionError", status_code |-> 0, json |-> << >>]

\* What the login server may answer: 200 with a complete or an incomplete body,
\* 401 or 404 with an error body or an empty one, or no answer at all.
LoginReplies ==
    {Reply(200, b) : b \in LoginBodies \cup IncompleteBodies}
    \cup {Reply(s, b) : s \in {401, 404}, b \in ErrorBodies \cup {<< >>}}
    \cup {ConnectionError}

ApiReplies == {Reply(200, << >>), ConnectionError}

NoReply == [raised |-> "not sent", status_code |-> 0, json |-> << >>]

---------------------------------------------------------------------------
\* Results of a method

Result(self, exc, msg, http) == [self |-> self, exc |-> exc, msg |-> msg, http |-> http]

Http(endpoint, json, headers) == [endpoint |-> endpoint, json |-> json, headers |-> headers]

NoHeaders == << >>

---------------------------------------------------------------------------
\* class AylaApi

AylaApi ==
    [_access_token |-> None, _refresh_token |-> None,
     _auth_expiration |-> None, _is_authed |-> FALSE]

\* The 404 message without its hint: the two causes read the same.
CONFIRM_APP_missing == << >>

CONFIRM_APP == <<" (Confirm app_id and app_secret are correct)">>

_set_credentials(self, status_code, login_result) ==
    IF status_code = 404 THEN
        IF "error" \in DOMAIN login_result
        THEN Result(self, "SharkIqAuthError", login_result["error"] \o CONFIRM_APP, << >>)
        ELSE Result(self, "KeyError", <<"error">>, << >>)
    ELSE IF status_code = 401 THEN
        IF "error" \in DOMAIN login_result
        THEN Result(self, "SharkIqAuthError", login_result["error"], << >>)
        ELSE Result(self, "KeyError", <<"error">>, << >>)
    ELSE IF "access_token" \notin DOMAIN login_result THEN
        Result(self, "KeyError", <<"access_token">>, << >>)
    ELSE
        LET s1 == [self EXCEPT !._access_token = Some(login_result["access_token"])] IN
        IF "refresh_token" \notin DOMAIN login_result THEN
            Result(s1, "KeyError", <<"refresh_token">>, << >>)
        ELSE
            LET s2 == [s1 EXCEPT !._refresh_token = Some(login_result["refresh_token"])] IN
            IF "expires_in" \notin DOMAIN login_result THEN
                Result(s2, "KeyError", <<"expires_in">>, << >>)
            ELSE
                Result([s2 EXCEPT !._auth_expiration = Some(now + login_result["expires_in"]),
                                  !._is_authed = TRUE],
                       NoExc, << >>, << >>)

\* requests.post(url, json=data) followed by _set_credentials(resp.status_code, resp.json())
post_credentials(self, endpoint, data, resp) ==
    LET call == <<Http(endpoint, data, NoHeaders)>> IN
    IF resp.raised # NoExc
    THEN Result(self, resp.raised, << >>, call)
    ELSE LET r == _set_credentials(self, resp.status_code, resp.json) IN
         Result(r.self, r.exc, r.msg, call)

_login_data == [email |-> "email", password |-> "password", application |-> "app"]

sign_in(self, resp) == post_credentials(self, "sign_in", _login_data, resp)

\* A refresh that posts the access token in place of the refresh token.
refresh_auth_posts_access_token(self, resp) ==
    post_credentials(self, "refresh_token", [refresh_token |-> self._access_token], resp)

refresh_auth(self, resp) ==
    post_credentials(self, "refresh_token", [refresh_token |-> self._refresh_token], resp)

sign_out_data(self) == [access_token |-> self._access_token]

\* A clearing that forgets the refresh token.
_clear_auth_keeps_refresh_token(self) ==
    [self EXCEPT !._is_authed = FALSE, !._access_token = None, !._auth_expiration = None]

_clear_auth(self) ==
    [self EXCEPT !._is_authed = FALSE, !._access_token = None,
                 !._refresh_token = None, !._auth_expiration = None]

sign_out(self, resp) ==
    LET call == <<Http("sign_out", sign_out_data(self), NoHeaders)>> IN
    IF resp.raised # NoExc
    THEN Result(self, resp.raised, << >>, call)
    ELSE Result(_clear_auth(self), NoExc, << >>, call)

\* The property auth_expiration: the expiry, None, or the exception it raises.
auth_expiration(self) ==
    IF ~self._is_authed THEN [exc |-> NoExc, value |-> None]
    ELSE IF self._auth_expiration = None
         THEN [exc |-> "SharkIqNotAuthedError", value |-> None]
         ELSE [exc |-> NoExc, value |-> self._auth_expiration]

SAFETY_MARGIN == 60

\* token_expired without the None case, as in src/sharkiq/ayla_api.py: the
\* comparison raises on a session that holds no expiry.
token_expired_without_none_case(self) ==
    IF self._auth_expiration = None THEN [exc |-> "TypeError", value |-> FALSE]
    ELSE [exc |-> NoExc, value |-> now > self._auth_expiration[1] + SAFETY_MARGIN]

\* The property token_expired: [exc, value].
token_expired(self) ==
    LET e == auth_expiration(self) IN
    IF e.exc # NoExc THEN [exc |-> e.exc, value |-> FALSE]
    ELSE IF e.value = None THEN [exc |-> NoExc, value |-> TRUE]
    ELSE [exc |-> NoExc, value |-> now > e.value[1] + SAFETY_MARGIN]

\* check_auth that looks at the stored token alone.
check_auth_token_only(self, confirm_still_valid) ==
    IF self._access_token = None THEN "SharkIqNotAuthedError" ELSE NoExc

\* check_auth: the exception it raises, or NoExc.
check_auth(self, confirm_still_valid) ==
    LET authed == self._access_token # None /\ self._is_authed IN
    IF ~authed THEN "SharkIqNotAuthedError"
    ELSE IF confirm_still_valid
         THEN LET t == token_expired(self) IN
              IF t.exc # NoExc THEN t.exc
              ELSE IF ~t.value THEN "SharkIqAuthExpiredError" ELSE NoExc
         ELSE NoExc

\* The property auth_header: [exc, value].
auth_header(self) ==
    LET c == check_auth(self, FALSE) IN
    IF c # NoExc THEN [exc |-> c, value |-> << >>]
    ELSE [exc |-> NoExc,
          value |-> [Authorization |-> <<"auth_token ", self._access_token[1]>>]]

\* The merge the other way round, {**self.auth_header, **headers}: the caller's
\* Authorization header replaces the session's.
DictMerge_caller_wins(a, b) ==
    [k \in DOMAIN a \cup DOMAIN b |-> IF k \in DOMAIN a THEN a[k] ELSE b[k]]

DictMerge(a, b) ==
    [k \in DOMAIN a \cup DOMAIN b |-> IF k \in DOMAIN b THEN b[k] ELSE a[k]]

\* The rest of request after the try block: build the headers, send.
send(self, headers, resp, sofar) ==
    LET h == auth_header(self) IN
    IF h.exc # NoExc THEN Result(self, h.exc, << >>, sofar)
    ELSE LET hs == IF headers = None THEN h.value ELSE DictMerge(headers[1], h.value)
             call == sofar \o <<Http("api", << >>, hs)>>
         IN Result(self, IF resp.raised # NoExc THEN resp.raised ELSE NoExc, << >>, call)

\* request and async_request; refresh_resp is the server's reply to the refresh
\* when one is posted.
request(self, headers, auto_refresh, refresh_resp, resp) ==
    LET c == check_auth(self, FALSE) IN
    IF c = "SharkIqAuthExpiredError" THEN
        IF auto_refresh THEN
            LET r == refresh_auth(self, refresh_resp) IN
            IF r.exc # NoExc THEN r
            ELSE send(r.self, headers, resp, r.http)
        ELSE Result(self, c, << >>, << >>)
    ELSE IF c # NoExc THEN Result(self, c, << >>, << >>)
    ELSE send(self, headers, resp, << >>)

---------------------------------------------------------------------------
\* class AylaApi of src/sharkiq/ayla_api.py, the earlier session: its request
\* refreshes an expired token.  The object has the same four fields.

\* _set_credentials(login_result): no status code, the fields one by one
sharkiq_set_credentials(self, login_result) ==
    IF "access_token" \notin DOMAIN login_result THEN
        Result(self, "KeyError", <<"access_token">>, << >>)
    ELSE IF "refresh_token" \notin DOMAIN login_result THEN
        Result([self EXCEPT !._access_token = Some(login_result["access_token"])],
               "KeyError", <<"refresh_token">>, << >>)
    ELSE IF "expires_in" \notin DOMAIN login_result THEN
        Result([self EXCEPT !._access_token = Some(login_result["access_token"]),
                            !._refresh_token = Some(login_result["refresh_token"])],
               "KeyError", <<"expires_in">>, << >>)
    ELSE
        Result([self EXCEPT !._access_token = Some(login_result["access_token"]),
                            !._refresh_token = Some(login_result["refresh_token"]),
                            !._auth_expiration = Some(now + login_result["expires_in"]),
                            !._is_authed = TRUE],
               NoExc, << >>, << >>)

\* The outcome of a method that posted call and got the answer resp, r being
\* what _set_credentials(resp.json()) does.
sharkiq_posted(self, call, resp, r) ==
    IF resp.raised # NoExc
    THEN Result(self, resp.raised, << >>, call)
    ELSE Result(r.self, r.exc, r.msg, call)

\* requests.post(url, json=data) followed by _set_credentials(resp.json())
sharkiq_post_credentials(self, endpoint, data, resp) ==
    sharkiq_posted(self, <<Http(endpoint, data, NoHeaders)>>, resp,
                   sharkiq_set_credentials(self, resp.json))

\* auth and auth_async
sharkiq_auth(self, resp) == sharkiq_post_credentials(self, "sign_in", _login_data, resp)

sharkiq_refresh_data(self) == [refresh_token |-> self._refresh_token]

\* refresh_auth and async_refresh_auth
sharkiq_refresh_auth(self, resp) ==
    sharkiq_post_credentials(self, "refresh_token", sharkiq_refresh_data(self), resp)

SHARKIQ_MARGIN == 600

\* The property token_expired: [exc, value]; None - timedelta raises TypeError.
sharkiq_token_expired(self) ==
    IF self._auth_expiration = None THEN [exc |-> "TypeError", value |-> FALSE]
    ELSE [exc |-> NoExc, value |-> now > self._auth_expiration[1] - SHARKIQ_MARGIN]

\* The property auth_header: [exc, value].
sharkiq_auth_header(self) ==
    IF self._access_token = None THEN [exc |-> "RuntimeError", value |-> << >>]
    ELSE [exc |-> NoExc,
          value |-> [Authorization |-> <<"auth_token ", self._access_token[1]>>]]

\* The headers of the call: h is the property auth_header.
sharkiq_headers(headers, h) ==
    IF headers = None THEN h.value ELSE DictMerge(headers[1], h.value)

\* The rest of request after the refresh: h is the property auth_header.
sharkiq_send_with(self, h, headers, resp, sofar) ==
    IF h.exc # NoExc THEN Result(self, h.exc, <<"Auth Error">>, sofar)
    ELSE Result(self, IF resp.raised # NoExc THEN resp.raised ELSE NoExc, << >>,
                sofar \o <<Http("api", << >>, sharkiq_headers(headers, h))>>)

sharkiq_send(self, headers, resp, sofar) ==
    sharkiq_send_with(self, sharkiq_auth_header(self), headers, resp, sofar)

\* A request that sends the original call whatever the refresh did.
sharkiq_after_refresh_goes_on(r, headers, resp) == sharkiq_send(r.self, headers, resp, r.http)

\* The rest of request once the refresh has ended as r.
sharkiq_after_refresh(r, headers, resp) ==
    IF r.exc # NoExc THEN r ELSE sharkiq_send(r.self, headers, resp, r.http)

\* request, and async_request when nothing else runs at its awaits; e is the
\* property token_expired.
sharkiq_request_when(self, e, headers, refresh_resp, resp) ==
    IF e.exc # NoExc THEN Result(self, e.exc, << >>, << >>)
    ELSE IF e.value
         THEN sharkiq_after_refresh(sharkiq_refresh_auth(self, refresh_resp), headers, resp)
         ELSE sharkiq_send(self, headers, resp, << >>)

sharkiq_request(self, headers, refresh_resp, resp) ==
    sharkiq_request_when(self, sharkiq_token_expired(self), headers, refresh_resp, resp)

\* A coroutine of async_request: where it is, the headers it was called with,
\* the answer its refresh got, how it ended and the HTTP calls it has made.
Task(pc, headers, refresh_resp, exc, http) ==
    [pc |-> pc, headers |-> headers, refresh_resp |-> refresh_resp, exc |-> exc, http |-> http]

\* A coroutine that has ended as r; refresh_resp is the answer to its refresh.
Ended(headers, refresh_resp, r) ==
    [self |-> r.self, task |-> Task("done", headers, refresh_resp, r.exc, r.http)]

\* async_request up to its first await: it ends at once, or posts the refresh
\* and waits for the answer.  e is the property token_expired.
sharkiq_async_request_when(self, e, headers, resp) ==
    IF e.exc = NoExc /\ e.value
    THEN [self |-> self,
          task |-> Task("async_refresh_auth", headers, NoReply, NoExc,
                        <<Http("refresh_token", sharkiq_refresh_data(self), NoHeaders)>>)]
    ELSE Ended(headers, NoReply, sharkiq_request_when(self, e, headers, NoReply, resp))

sharkiq_async_request(self, headers, resp) ==
    sharkiq_async_request_when(self, sharkiq_token_expired(self), headers, resp)

\* The headers built before the refresh: h is the auth_header of the session
\* as it was when the coroutine was called.
sharkiq_async_request_resumed_with_old_headers(self, task, refresh_resp, resp) ==
    LET r == sharkiq_posted(self, task.http, refresh_resp,
                            sharkiq_set_credentials(self, refresh_resp.json))
    IN Ended(task.headers, refresh_resp,
             IF r.exc # NoExc THEN r
             ELSE sharkiq_send_with(r.self, sharkiq_auth_header(self), task.headers, resp, r.http))

\* async_request from the answer to its refresh on: _set_credentials, then the
\* headers and the call.
sharkiq_async_request_resumed(self, task, refresh_resp, resp) ==
    Ended(task.headers, refresh_resp,
          sharkiq_after_refresh(sharkiq_posted(self, task.http, refresh_resp,
                                               sharkiq_set_credentials(self, refresh_resp.json)),
                                task.headers, resp))

---------------------------------------------------------------------------
\* str: a sequence of characters

LOWER == <<"a", "b", "c", "d", "e", "f", "g", "h", "i", "j", "k", "l", "m",
           "n", "o", "p", "q", "r", "s", "t", "u", "v", "w", "x", "y", "z">>

UPPER == <<"A", "B", "C", "D", "E", "F", "G", "H", "I", "J", "K", "L", "M",
           "N", "O", "P", "Q", "R", "S", "T", "U", "V", "W", "X", "Y", "Z">>

\* The upper-case letter of each lower-case letter
ToUpper ==
    [c \in {LOWER[i] : i \in DOMAIN LOWER} |-> UPPER[CHOOSE i \in DOMAIN LOWER : LOWER[i] = c]]

\* c.upper() of one character
upper_char(c) == IF c \in DOMAIN ToUpper THEN ToUpper[c] ELSE c

\* s.upper()
upper(s) == [i \in 1..Len(s) |-> upper_char(s[i])]

\* s[:n]
Head_(s, n) == SubSeq(s, 1, IF Len(s) < n THEN Len(s) ELSE n)

\* s[n:]
Tail_(s, n) == SubSeq(s, n + 1, Len(s))

SET_ == <<"S", "E", "T", "_">>

GET_ == <<"G", "E", "T", "_">>

SET == <<"S", "E", "T">>

---------------------------------------------------------------------------
\* src/sharkiqpy/sharkiq.py

\* _clean_property_name that keeps the prefix
_clean_property_name_keeps_prefix(raw_property_name) == raw_property_name

\* _clean_property_name that compares the prefix as it is written
_clean_property_name_case_sensitive(raw_property_name) ==
    IF Head_(raw_property_name, 4) \in {SET_, GET_}
    THEN Tail_(raw_property_name, 4)
    ELSE raw_property_name

_clean_property_name(raw_property_name) ==
    IF upper(Head_(raw_property_name, 4)) \in {SET_, GET_}
    THEN Tail_(raw_property_name, 4)
    ELSE raw_property_name

\* class SharkIqVacuum
SharkIqVacuum == [properties_full |-> << >>, _settable_properties |-> None]

\* The outcome of a method of the vacuum: the vacuum and the session afterwards,
\* the exception, what it returned and the HTTP calls the session made for it.
VacResult(self, ayla_api, exc, msg, value, http) ==
    [self |-> self, api |-> ayla_api, exc |-> exc, msg |-> msg, value |-> value, http |-> http]

\* d.get(key): <<d[key]>>, or None
Get(d, key) == IF key \in DOMAIN d THEN Some(d[key]) ELSE None

\* defaultdict(dict).__getitem__: a missing key is inserted with an empty dict
Missing(d, key) == IF key \in DOMAIN d THEN d ELSE DictMerge(d, [k \in {key} |-> << >>])

\* SharkPropertiesView.__getitem__
View_getitem(self, key) ==
    LET d == Missing(self.properties_full, key) IN
    [self |-> [self EXCEPT !.properties_full = d], value |-> Get(d[key], "value")]

\* The outcome of a read r of the view.
returned(r, ayla_api) == VacResult(r.self, ayla_api, NoExc, << >>, r.value, << >>)

get_property_value(self, ayla_api, property_name) ==
    returned(View_getitem(self, property_name), ayla_api)

\* properties_full.get(property_name, {}).get('read_only'), as a truth value
is_read_only(self, property_name) ==
    /\ property_name \in DOMAIN self.properties_full
    /\ "read_only" \in DOMAIN self.properties_full[property_name]
    /\ self.properties_full[property_name]["read_only"] = TRUE

\* A write that leaves its entry alone in the cache.
merge_datapoint_wipes_the_others(self, property_name, resp_data) ==
    LET d == Missing(self.properties_full, property_name) IN
    [self EXCEPT !.properties_full = [k \in {property_name} |-> DictMerge(d[k], resp_data)]]

\* self.properties_full[property_name].update(resp.json())
merge_datapoint(self, property_name, resp_data) ==
    LET d == Missing(self.properties_full, property_name) IN
    [self EXCEPT !.properties_full = [d EXCEPT ![property_name] = DictMerge(@, resp_data)]]

\* A method that calls ayla_api.request and then changes the vacuum: r is the
\* outcome of the request, done the vacuum after the statements that follow it,
\* which an exception of the request skips.
after_request(self, r, done) ==
    IF r.exc # NoExc
    THEN VacResult(self, r.self, r.exc, r.msg, None, r.http)
    ELSE VacResult(done, r.self, NoExc, << >>, None, r.http)

\* The POST of set_property_value and set_property_value_async, and the merge
\* of its answer.
post_datapoint(self, ayla_api, property_name, value, refresh_resp, resp) ==
    after_request(self, request(ayla_api, None, TRUE, refresh_resp, resp),
                  merge_datapoint(self, property_name, resp.json))

\* set_property_value without the read_only test
set_property_value_unchecked(self, ayla_api, property_name, value, refresh_resp, resp) ==
    post_datapoint(self, ayla_api, property_name, value, refresh_resp, resp)

set_property_value(self, ayla_api, property_name, value, refresh_resp, resp) ==
    IF is_read_only(self, property_name)
    THEN VacResult(self, ayla_api, "SharkIqReadOnlyPropertyError",
                   property_name \o <<" is read only">>, None, << >>)
    ELSE post_datapoint(self, ayla_api, property_name, value, refresh_resp, resp)

set_property_value_async(self, ayla_api, property_name, value, refresh_resp, resp) ==
    post_datapoint(self, ayla_api, property_name, value, refresh_resp, resp)

\* {p['property']['name'] for p in properties}
property_names(properties) == {properties[i].property.name : i \in DOMAIN properties}

settable_properties(properties) ==
    {_clean_property_name(p) : p \in {n \in property_names(properties) : upper(Head_(n, 3)) = SET}}

\* The entries the dict comprehension keeps.
readable_entries(properties) ==
    {i \in DOMAIN properties : upper(properties[i].property.name) # SET}

\* The dict comprehension: a later entry of the list replaces an earlier one
\* with the same cleaned name.
readable_properties(properties) ==
    LET keep == readable_entries(properties)
        keys == {_clean_property_name(properties[i].property.name) : i \in keep}
        at(k) == CHOOSE i \in keep :
                    /\ _clean_property_name(properties[i].property.name) = k
                    /\ \A j \in keep :
                          _clean_property_name(properties[j].property.name) = k => j <= i
    IN [k \in keys |-> properties[at(k)].property]

\* _do_update that merges into the cache on a full update too
_do_update_always_merges(self, full_update, properties) ==
    LET settable ==
            IF full_update \/ self._settable_properties = None
            THEN Some(settable_properties(properties))
            ELSE Some(self._settable_properties[1] \cup settable_properties(properties))
    IN [self EXCEPT !._settable_properties = settable,
                    !.properties_full = DictMerge(@, readable_properties(properties))]

\* _do_update that wipes the cache on a partial update too
_do_update_always_wipes(self, full_update, properties) ==
    LET settable ==
            IF full_update \/ self._settable_properties = None
            THEN Some(settable_properties(properties))
            ELSE Some(self._settable_properties[1] \cup settable_properties(properties))
    IN [self EXCEPT !._settable_properties = settable,
                    !.properties_full = readable_properties(properties)]

\* _do_update that assigns the settable names of the answer on a partial update too
_do_update_always_assigns(self, full_update, properties) ==
    LET cache ==
            IF full_update THEN readable_properties(properties)
            ELSE DictMerge(self.properties_full, readable_properties(properties))
    IN [self EXCEPT !._settable_properties = Some(settable_properties(properties)),
                    !.properties_full = cache]

_do_update(self, full_update, properties) ==
    LET settable ==
            IF full_update \/ self._settable_properties = None
            THEN Some(settable_properties(properties))
            ELSE Some(self._settable_properties[1] \cup settable_properties(properties))
        cache ==
            IF full_update THEN readable_properties(properties)
            ELSE DictMerge(self.properties_full, readable_properties(properties))
    IN [self EXCEPT !._settable_properties = settable, !.properties_full = cache]

\* update and async_update
update(self, ayla_api, property_list, refresh_resp, resp) ==
    LET full_update == property_list = None IN
    after_request(self, request(ayla_api, None, TRUE, refresh_resp, resp),
                  _do_update(self, full_update, resp.json))

---------------------------------------------------------------------------
\* error_code and error_text

Error_Code == <<"E", "r", "r", "o", "r", "_", "C", "o", "d", "e">>

ERROR_CODES ==
    [code \in {6, 7, 11, 2, 3, 9, 10, 14, 16, 21, 23, 24, 26, 27} |->
        CASE code = 6 -> <<"Bumper stuck">>
          [] code = 7 -> <<"Sensor blocked">>
          [] code = 11 -> <<"Cleaning interrupted">>
          [] code = 2 -> <<"Obstruction under robot">>
          [] code = 3 -> <<"Suction motor error">>
          [] code = 9 -> <<"Check dustbin">>
          [] code = 10 -> <<"Surface not level">>
          [] code = 14 -> <<"Boundary error">>
          [] code = 16 -> <<"Robot stuck">>
          [] code = 21 -> <<"Initialization error">>
          [] code = 23 -> <<"Cannot find dock">>
          [] code = 24 -> <<"Battery Low">>
          [] code = 26 -> <<"Dustbin full">>
          [] code = 27 -> <<"Surface not level">>]

DIGITS == <<"0", "1", "2", "3", "4", "5", "6", "7", "8", "9">>

\* str(n) of an int n >= 0, as the f-string formats it
RECURSIVE str_int(_)
str_int(n) ==
    IF n < 10 THEN <<DIGITS[n + 1]>>
    ELSE str_int(n \div 10) \o <<DIGITS[(n % 10) + 1]>>

\* The property error_code
error_code(self, ayla_api) == get_property_value(self, ayla_api, Error_Code)

\* error_text that takes a code of zero for an error
error_text_of_any_code(err) ==
    IF err # None
    THEN IF err[1] \in DOMAIN ERROR_CODES
         THEN Some(ERROR_CODES[err[1]])
         ELSE Some(<<"Unknown error (">> \o str_int(err[1]) \o <<")">>)
    ELSE None

\* The text of error_text for the code err that error_code returned: err is
\* None, or an int.
error_text_of(err) ==
    IF err # None /\ err[1] # 0
    THEN IF err[1] \in DOMAIN ERROR_CODES
         THEN Some(ERROR_CODES[err[1]])
         ELSE Some(<<"Unknown error (">> \o str_int(err[1]) \o <<")">>)
    ELSE None

\* The outcome of error_text after its read r of error_code.
error_text_after(r) == VacResult(r.self, r.api, r.exc, r.msg, error_text_of(r.value), r.http)

\* The property error_text
error_text(self, ayla_api) == error_text_after(error_code(self, ayla_api))

---------------------------------------------------------------------------
\* The calls a program makes, and the clock

CallerHeaders ==
    {None, Some([Accept |-> <<"application/json">>]),
     Some([Accept |-> <<"application/json">>, Authorization |-> <<"Bearer ", "caller">>])}

Call(op, auto_refresh, headers, resp, r) ==
    [op |-> op, auto_refresh |-> auto_refresh, headers |-> headers,
     resp |-> resp, exc |-> r.exc, msg |-> r.msg, http |-> r.http]

Idle ==
    [op |-> "none", auto_refresh |-> FALSE, headers |-> None,
     resp |-> NoReply, exc |-> NoExc, msg |-> << >>, http |-> << >>]

\* issued after a sign-in or a refresh that the server answered with resp.
Issued(succeeded, resp) ==
    IF ~succeeded THEN << >>
    ELSE IF issued = << >> THEN <<resp.json["refresh_token"]>>
    ELSE <<issued[Len(issued)], resp.json["refresh_token"]>>

Init ==
    /\ api = AylaApi
    /\ now = 0
    /\ ticks = 0
    /\ last = Idle
    /\ issued = << >>
    /\ vac = SharkIqVacuum
    /\ vac2 = SharkIqVacuum
    /\ tasks = << >>

SignIn ==
    \E resp \in LoginReplies :
        LET r == sign_in(api, resp) IN
        /\ api' = r.self
        /\ last' = Call("sign_in", FALSE, None, resp, r)
        /\ issued' = Issued(r.exc = NoExc, resp)
        /\ UNCHANGED <<now, ticks, vac, vac2, tasks>>

RefreshAuth ==
    \E resp \in LoginReplies :
        LET r == refresh_auth(api, resp) IN
        /\ api' = r.self
        /\ last' = Call("refresh_auth", FALSE, None, resp, r)
        /\ issued' = Issued(r.exc = NoExc, resp)
        /\ UNCHANGED <<now, ticks, vac, vac2, tasks>>

SignOut ==
    \E resp \in ApiReplies :
        LET r == sign_out(api, resp) IN
        /\ api' = r.self
        /\ last' = Call("sign_out", FALSE, None, resp, r)
        /\ issued' = << >>
        /\ UNCHANGED <<now, ticks, vac, vac2, tasks>>

NeedsRefresh(auto_refresh) ==
    auto_refresh /\ check_auth(api, FALSE) = "SharkIqAuthExpiredError"

Request ==
    \E auto_refresh \in BOOLEAN, headers \in CallerHeaders, resp \in ApiReplies :
        \E refresh_resp \in IF NeedsRefresh(auto_refresh) THEN LoginReplies ELSE {NoReply} :
            LET r == request(api, headers, auto_refresh, refresh_resp, resp) IN
            /\ api' = r.self
            /\ last' = Call("request", auto_refresh, headers,
                            IF Len(r.http) = 0 \/ r.http[Len(r.http)].endpoint # "api"
                            THEN NoReply ELSE resp, r)
            /\ issued' = IF refresh_resp = NoReply THEN issued
                         ELSE Issued(Len(r.http) = 2, refresh_resp)
            /\ UNCHANGED <<now, ticks, vac, vac2, tasks>>

Tick ==
    \E d \in ClockSteps :
        /\ ticks < MaxTicks
        /\ now' = now + d
        /\ ticks' = ticks + 1
        /\ last' = Idle
        /\ UNCHANGED <<api, issued, vac, vac2, tasks>>

Next == SignIn \/ RefreshAuth \/ SignOut \/ Request \/ Tick

Spec == Init /\ [][Next]_vars

---------------------------------------------------------------------------
\* A vacuum on a session: what the device's server may answer, the calls a
\* program makes on the vacuum

MaxProps == 2

P == <<"P">>

SET_P == <<"S", "E", "T", "_", "P">>

Set_bare == <<"S", "e", "t">>

Get_bare == <<"G", "e", "t">>

Property(name, value, read_only) == [name |-> name, value |-> value, read_only |-> read_only]

\* The entries of a properties.json answer: {'property': {...}}
ServerProperties ==
    {[property |-> p] : p \in {Property(P, 2, TRUE), Property(SET_P, 3, FALSE),
                               Property(Set_bare, 1, FALSE), Property(Get_bare, 1, FALSE)}}

RECURSIVE Lists(_, _)
Lists(S, n) ==
    IF n = 0 THEN {<< >>}
    ELSE Lists(S, n - 1) \cup {Append(l, x) : l \in Lists(S, n - 1), x \in S}

PropertiesReplies == {Reply(200, l) : l \in Lists(ServerProperties, MaxProps)} \cup {ConnectionError}

\* The names and the values a program passes
PropertyNames == {P, SET_P}

PropertyValues == {5}

PropertyLists == {None, Some(<<P>>)}

DatapointReplies == {Reply(200, [value |-> v]) : v \in PropertyValues} \cup {ConnectionError}

VacCall(op, property_name, value, property_list, resp, r) ==
    [op |-> op, property_name |-> property_name, value |-> value,
     property_list |-> property_list, resp |-> resp,
     exc |-> r.exc, msg |-> r.msg, returned |-> r.value, http |-> r.http]

VacIdle ==
    [op |-> "none", property_name |-> << >>, value |-> None,
     property_list |-> None, resp |-> NoReply,
     exc |-> NoExc, msg |-> << >>, returned |-> None, http |-> << >>]

\* A new vacuum, on a new session or on one that has signed in.
InitVac ==
    /\ now = 0
    /\ ticks = 0
    /\ \/ api = AylaApi /\ issued = << >>
       \/ \E resp \in {Reply(200, [access_token |-> "T1", refresh_token |-> "R1",
                                   expires_in |-> 3600])} :
             /\ api = sign_in(AylaApi, resp).self
             /\ issued = <<resp.json["refresh_token"]>>
    /\ last = VacIdle
    /\ vac = SharkIqVacuum
    /\ vac2 = SharkIqVacuum
    /\ tasks = << >>

\* The answer the call got: none when the session sent nothing.
Answered(r, resp) == IF Len(r.http) = 0 THEN NoReply ELSE resp

\* The state after a call on the vacuum whose outcome is r.
Called(op, property_name, value, property_list, resp, r) ==
    /\ vac' = r.self
    /\ api' = r.api
    /\ last' = VacCall(op, property_name, value, property_list, Answered(r, resp), r)
    /\ UNCHANGED <<now, ticks, issued, vac2, tasks>>

Update ==
    \E property_list \in PropertyLists, resp \in PropertiesReplies :
        \E refresh_resp \in IF NeedsRefresh(TRUE) THEN LoginReplies ELSE {NoReply} :
            Called("update", << >>, None, property_list, resp,
                   update(vac, api, property_list, refresh_resp, resp))

GetPropertyValue ==
    \E property_name \in PropertyNames :
        Called("get_property_value", property_name, None, None, NoReply,
               get_property_value(vac, api, property_name))

SetPropertyValue ==
    \E property_name \in PropertyNames, value \in PropertyValues, resp \in DatapointReplies :
        \E refresh_resp \in IF NeedsRefresh(TRUE) THEN LoginReplies ELSE {NoReply} :
            Called("set_property_value", property_name, Some(value), None, resp,
                   set_property_value(vac, api, property_name, value, refresh_resp, resp))

SetPropertyValueAsync ==
    \E property_name \in PropertyNames, value \in PropertyValues, resp \in DatapointReplies :
        \E refresh_resp \in IF NeedsRefresh(TRUE) THEN LoginReplies ELSE {NoReply} :
            Called("set_property_value_async", property_name, Some(value), None, resp,
                   set_property_value_async(vac, api, property_name, value, refresh_resp, resp))

NextVac == Update \/ GetPropertyValue \/ SetPropertyValue \/ SetPropertyValueAsync

SpecVac == InitVac /\ [][NextVac]_vars

---------------------------------------------------------------------------
\* A vacuum that reports its error code

MaxErrorCode == 28

\* The answers to update: no property, Error_Code with a code, Error_Code
\* with no value, or no answer.
ErrorCodeReplies ==
    {Reply(200, << >>), Reply(200, <<[property |-> [name |-> Error_Code, read_only |-> TRUE]]>>),
     ConnectionError}
    \cup {Reply(200, <<[property |-> Property(Error_Code, v, TRUE)]>>) : v \in 0..MaxErrorCode}

UpdateErrorCode ==
    \E property_list \in {None, Some(<<Error_Code>>)}, resp \in ErrorCodeReplies :
        \E refresh_resp \in IF NeedsRefresh(TRUE) THEN LoginReplies ELSE {NoReply} :
            Called("update", << >>, None, property_list, resp,
                   update(vac, api, property_list, refresh_resp, resp))

ErrorCode ==
    Called("error_code", Error_Code, None, None, NoReply, error_code(vac, api))

ErrorText ==
    Called("error_text", Error_Code, None, None, NoReply, error_text(vac, api))

NextErr == UpdateErrorCode \/ ErrorCode \/ ErrorText

SpecErr == InitVac /\ [][NextErr]_vars

---------------------------------------------------------------------------
\* The earlier session (src/sharkiq/ayla_api.py): its calls, and two
\* coroutines of async_request on the one session

TaskIds == {1, 2}

\* What the login server may answer to this session, which reads the body
\* alone: a complete body, one without its refresh token, an error, nothing.
SharkiqReplies ==
    {Reply(200, [access_token |-> t[1], refresh_token |-> t[2], expires_in |-> t[3]]) :
        t \in {<<"T1", "R1", 3600>>, <<"T2", "R2", 3600>>, <<"T2", "R2", 60>>}}
    \cup {Reply(200, [access_token |-> "T2", expires_in |-> 3600]),
          Reply(401, [error |-> <<"Invalid email or password">>]),
          ConnectionError}

\* A coroutine, with the note of whether it has waited for its refresh while
\* another coroutine waited for its own.
Noted(task, overlapped) ==
    [pc |-> task.pc, headers |-> task.headers, refresh_resp |-> task.refresh_resp,
     exc |-> task.exc, http |-> task.http, overlapped |-> overlapped]

NotStarted == Noted(Task("not started", None, NoReply, NoExc, << >>), FALSE)

Awaiting(task) == task.pc = "async_refresh_auth"

InitSharkiq ==
    /\ api = AylaApi
    /\ now = 0
    /\ ticks = 0
    /\ last = Idle
    /\ issued = << >>
    /\ vac = SharkIqVacuum
    /\ vac2 = SharkIqVacuum
    /\ tasks = [t \in TaskIds |-> NotStarted]

\* The state after a call that ran to its end as r.
Returned(op, headers, resp, r) ==
    /\ api' = r.self
    /\ last' = Call(op, TRUE, headers, resp, r)
    /\ UNCHANGED <<now, ticks, issued, vac, vac2, tasks>>

\* The state after the coroutine t ran up to its next await, or to its end.
Suspended(t, r) ==
    /\ api' = r.self
    /\ tasks' = [u \in TaskIds |->
                    IF u = t
                    THEN Noted(r.task, tasks[t].overlapped
                                       \/ (Awaiting(r.task)
                                           /\ \E v \in TaskIds \ {t} : Awaiting(tasks[v])))
                    ELSE Noted(tasks[u], tasks[u].overlapped
                                         \/ (Awaiting(r.task) /\ Awaiting(tasks[u])))]
    /\ last' = Idle
    /\ UNCHANGED <<now, ticks, issued, vac, vac2>>

Auth ==
    \E resp \in SharkiqReplies :
        Returned("auth", None, resp, sharkiq_auth(api, resp))

AsyncRequest ==
    \E t \in TaskIds, headers \in {None}, resp \in ApiReplies :
        /\ tasks[t].pc = "not started"
        /\ Suspended(t, sharkiq_async_request(api, headers, resp))

AsyncRefreshed ==
    \E t \in TaskIds, refresh_resp \in SharkiqReplies, resp \in ApiReplies :
        /\ Awaiting(tasks[t])
        /\ Suspended(t, sharkiq_async_request_resumed(api, tasks[t], refresh_resp, resp))

NextSharkiq == Auth \/ AsyncRequest \/ AsyncRefreshed \/ Tick

SpecSharkiq == InitSharkiq /\ [][NextSharkiq]_vars

---------------------------------------------------------------------------
\* What the properties below read off a call

\* _clean_property_name on its own: a name is drawn, the function is applied
\* to it, and then to what it returned.

\* Two vacuums on one session, their async calls interleaved.  A coroutine of
\* async_update or set_property_value_async runs up to the await of its HTTP
\* request, and goes on from the answer; between the two the coroutine of the
\* other vacuum may run.  tasks[d] is the coroutine on the vacuum d.

Devices == {1, 2}

\* async_request as far as the request sent: the outcome is "not sent" while
\* the answer is awaited.
async_request_sent(self, headers) == request(self, headers, TRUE, NoReply, NoReply)

\* The request r once its answer resp is there.
async_request_answered(r, resp) ==
    Result(r.self, IF resp.raised # NoExc THEN resp.raised ELSE NoExc, << >>, r.http)

\* async_update from the answer on
async_update_resumed(self, r, full_update, resp) ==
    after_request(self, async_request_answered(r, resp), _do_update(self, full_update, resp.json))

\* set_property_value_async from the answer on
set_property_value_async_resumed(self, r, property_name, resp) ==
    after_request(self, async_request_answered(r, resp),
                  merge_datapoint(self, property_name, resp.json))

\* A coroutine on a vacuum: the call, its arguments and its request.
Coroutine(op, property_name, full_update, r) ==
    [op |-> op, property_name |-> property_name, full_update |-> full_update,
     exc |-> r.exc, http |-> r.http]

NoCoroutine == Coroutine("none", << >>, FALSE, Result(AylaApi, NoExc, << >>, << >>))

InFlight(task) == task.op # "none" /\ task.exc = "not sent"

\* What the server answers to the two vacuums
AsyncPropertiesReplies ==
    {Reply(200, l) : l \in {<< >>, <<[property |-> Property(P, 2, TRUE)]>>,
                            <<[property |-> Property(SET_P, 3, FALSE)]>>}}
    \cup {ConnectionError}

\* The step a coroutine has made: on which vacuum, of which call, with which
\* answer, and the exception it ended with.
Step(device, op, resp, exc) == [device |-> device, op |-> op, resp |-> resp, exc |-> exc]

InitTwo ==
    /\ now = 0
    /\ ticks = 0
    /\ api \in {AylaApi,
                sign_in(AylaApi, Reply(200, [access_token |-> "T1", refresh_token |-> "R1",
                                             expires_in |-> 3600])).self}
    /\ issued = << >>
    /\ vac = SharkIqVacuum
    /\ vac2 = SharkIqVacuum
    /\ tasks = [d \in Devices |-> NoCoroutine]
    /\ last = Step(0, "none", NoReply, NoExc)

Device(d) == IF d = 1 THEN vac ELSE vac2

\* One cache for the two vacuums.
Landed_on_both(d, self) == vac' = self /\ vac2' = self

\* The vacuum d is now self; the other one is not touched.
Landed(d, self) ==
    /\ vac' = IF d = 1 THEN self ELSE vac
    /\ vac2' = IF d = 2 THEN self ELSE vac2

\* The coroutine on d has run to its await, or to the exception of the request.
Started(d, op, property_name, full_update, r) ==
    /\ ~InFlight(tasks[d])
    /\ api' = r.self
    /\ tasks' = [tasks EXCEPT ![d] = Coroutine(op, property_name, full_update, r)]
    /\ last' = Step(d, op, NoReply, IF r.exc = "not sent" THEN NoExc ELSE r.exc)
    /\ UNCHANGED <<now, ticks, issued, vac, vac2>>

\* The coroutine on d has run from its answer to its end.
Finished(d, resp, r) ==
    /\ api' = r.api
    /\ Landed(d, r.self)
    /\ tasks' = [tasks EXCEPT ![d] = NoCoroutine]
    /\ last' = Step(d, tasks[d].op, resp, r.exc)
    /\ UNCHANGED <<now, ticks, issued>>

AsyncUpdate ==
    \E d \in Devices, property_list \in PropertyLists :
        Started(d, "async_update", << >>, property_list = None, async_request_sent(api, None))

AsyncUpdateAnswered ==
    \E d \in Devices, resp \in AsyncPropertiesReplies :
        /\ InFlight(tasks[d]) /\ tasks[d].op = "async_update"
        /\ Finished(d, resp,
                    async_update_resumed(Device(d), Result(api, NoExc, << >>, tasks[d].http),
                                         tasks[d].full_update, resp))

SetAsync ==
    \E d \in Devices, property_name \in PropertyNames :
        Started(d, "set_property_value_async", property_name, FALSE, async_request_sent(api, None))

SetAsyncAnswered ==
    \E d \in Devices, resp \in DatapointReplies :
        /\ InFlight(tasks[d]) /\ tasks[d].op = "set_property_value_async"
        /\ Finished(d, resp,
                    set_property_value_async_resumed(Device(d),
                                                     Result(api, NoExc, << >>, tasks[d].http),
                                                     tasks[d].property_name, resp))

NextTwo == AsyncUpdate \/ AsyncUpdateAnswered \/ SetAsync \/ SetAsyncAnswered

SpecTwo == InitTwo /\ [][NextTwo]_vars

MaxPieces == 3

Pieces ==
    {SET_, GET_, <<"s", "e", "t", "_">>, <<"G", "e", "t", "_">>,
     SET, <<"S", "E", "T", "X">>, <<"_">>, <<"P">>}

RECURSIVE Joined(_)
Joined(n) ==
    IF n = 0 THEN {<< >>}
    ELSE Joined(n - 1) \cup {s \o p : s \in Joined(n - 1), p \in Pieces}

RawPropertyNames == Joined(MaxPieces)

CleanCall(op, raw_property_name, value) ==
    [op |-> op, raw_property_name |-> raw_property_name, value |-> value]

InitClean ==
    /\ now = 0
    /\ ticks = 0
    /\ api = AylaApi
    /\ issued = << >>
    /\ vac = SharkIqVacuum
    /\ vac2 = SharkIqVacuum
    /\ tasks = << >>
    /\ \E n \in RawPropertyNames : last = CleanCall("none", n, n)

Clean ==
    /\ last.op = "none"
    /\ last' = CleanCall("_clean_property_name", last.raw_property_name,
                         _clean_property_name(last.raw_property_name))
    /\ UNCHANGED <<api, now, ticks, issued, vac, vac2, tasks>>

CleanAgain ==
    /\ last.op = "_clean_property_name"
    /\ last' = CleanCall("_clean_property_name", last.value, _clean_property_name(last.value))
    /\ UNCHANGED <<api, now, ticks, issued, vac, vac2, tasks>>

NextClean == Clean \/ CleanAgain

SpecClean == InitClean /\ [][NextClean]_vars

SignedIn(self) == self._is_authed /\ self._access_token # None

Refreshes(http) == {i \in DOMAIN http : http[i].endpoint = "refresh_token"}

OtherStatus(status_code) == IF status_code = 401 THEN 404 ELSE 401

---------------------------------------------------------------------------
\* C1: a request with auto_refresh = true on a signed-in session whose token is
\* expired makes exactly one refresh call, and makes it before the original
\* HTTP request.
C1_RefreshOnceBeforeRequest ==
    [][(last'.op = "request" /\ last'.auto_refresh
        /\ SignedIn(api) /\ token_expired(api).value)
       => /\ Cardinality(Refreshes(last'.http)) = 1
          /\ last'.http[1].endpoint = "refresh_token"
          /\ \A i \in DOMAIN last'.http : last'.http[i].endpoint = "api" => i = 2]_vars

\* C2: a request with auto_refresh = false on a signed-in session whose token is
\* expired raises SharkIqAuthExpiredError and issues no HTTP request at all.
C2_ExpiredWithoutAutoRefreshRaises ==
    [][(last'.op = "request" /\ ~last'.auto_refresh
        /\ SignedIn(api) /\ token_expired(api).value)
       => /\ last'.exc = "SharkIqAuthExpiredError"
          /\ last'.http = << >>]_vars

\* C3: on a signed-in session, whose stored expiry is the sign-in time plus the
\* server's lifetime, token_expired is true at every clock time later than the
\* expiry minus the safety margin (with a lifetime of 3600, 3601 seconds after
\* the sign-in).
C3_ExpiredPastExpiryMinusMargin ==
    (api._is_authed /\ api._auth_expiration # None
     /\ now > api._auth_expiration[1] - SAFETY_MARGIN)
    => token_expired(api) = [exc |-> NoExc, value |-> TRUE]

\* C4: token_expired is true, and raises nothing, on a session that is not signed
\* in, and is false right after a successful sign_in, before the clock advances.
C4_ExpiredBeforeSignInFreshAfter ==
    /\ ~api._is_authed => token_expired(api) = [exc |-> NoExc, value |-> TRUE]
    /\ (last.op = "sign_in" /\ last.exc = NoExc)
       => token_expired(api) = [exc |-> NoExc, value |-> FALSE]

C4_Witness ==
    /\ last.op = "sign_in" /\ last.exc = NoExc
    /\ ticks > 0
    /\ token_expired(api) = [exc |-> NoExc, value |-> FALSE]

\* C5: in every reachable state a stored access token implies that the
\* authenticated flag is set.
C5_TokenImpliesAuthed == api._access_token # None => api._is_authed

\* C6: sign_in raises SharkIqAuthError when the server answers 401 and when it
\* answers 404 with an error text, and its message differs from the message the
\* other of the two status codes gives for the same error text.
C6_AuthErrorDistinguishes401From404 ==
    (last.op = "sign_in" /\ last.resp.raised = NoExc
     /\ last.resp.status_code \in {401, 404} /\ "error" \in DOMAIN last.resp.json)
    => /\ last.exc = "SharkIqAuthError"
       /\ sign_in(AylaApi, Reply(OtherStatus(last.resp.status_code), last.resp.json)).exc
            = "SharkIqAuthError"
       /\ sign_in(AylaApi, Reply(OtherStatus(last.resp.status_code), last.resp.json)).msg
            # last.msg

C6_Witness ==
    /\ last.op = "sign_in" /\ last.resp.status_code = 404
    /\ "error" \in DOMAIN last.resp.json
    /\ last.exc = "SharkIqAuthError"
    /\ last.msg = last.resp.json["error"] \o <<" (Confirm app_id and app_secret are correct)">>

\* C7: refresh_auth on a session with no successful sign-in behind it (or after
\* sign_out) raises SharkIqNotAuthedError.
C7_RefreshWithoutSignInRaises ==
    [][(last'.op = "refresh_auth" /\ ~api._is_authed)
       => last'.exc = "SharkIqNotAuthedError"]_vars

\* C8: in a run of successful sign_in and refresh_auth calls, a refresh posts the
\* refresh token the most recent of them returned, and when it succeeds the
\* stored access token, refresh token and expiry are those of its response
\* (expiry = now + expires_in).
C8_RefreshRotatesLatestToken ==
    [][(last'.op = "refresh_auth" /\ issued # << >>)
       => /\ last'.http = <<Http("refresh_token",
                                 [refresh_token |-> Some(issued[Len(issued)])], NoHeaders)>>
          /\ last'.exc = NoExc
             => /\ api'._access_token = Some(last'.resp.json["access_token"])
                /\ api'._refresh_token = Some(last'.resp.json["refresh_token"])
                /\ api'._auth_expiration = Some(now' + last'.resp.json["expires_in"])
                /\ api'._is_authed]_vars

C8_Witness ==
    /\ last.op = "refresh_auth" /\ last.exc = NoExc
    /\ Len(issued) = 2 /\ issued[1] # issued[2]
    /\ last.http[1].json["refresh_token"] = Some(issued[1])
    /\ api._refresh_token = Some(issued[2])
    /\ ticks > 0

\* C9: when sign_out returns, the access token, the refresh token and the expiry
\* are None and the authenticated flag is false, and the sign-out request was
\* posted with the access token stored before the call.
C9_SignOutClearsAfterPosting ==
    [][(last'.op = "sign_out" /\ last'.exc = NoExc)
       => /\ api'._access_token = None
          /\ api'._refresh_token = None
          /\ api'._auth_expiration = None
          /\ ~api'._is_authed
          /\ last'.http = <<Http("sign_out", [access_token |-> api._access_token],
                                 NoHeaders)>>]_vars

C9_Witness ==
    /\ last.op = "sign_out" /\ last.exc = NoExc
    /\ last.http[1].json["access_token"] # None
    /\ api = AylaApi

\* C10: on a session that is not authenticated, request raises
\* SharkIqNotAuthedError and issues no HTTP call, whatever auto_refresh is.
C10_UnauthenticatedRequestRaises ==
    [][(last'.op = "request" /\ ~api._is_authed)
       => /\ last'.exc = "SharkIqNotAuthedError"
          /\ last'.http = << >>
          /\ api' = api]_vars

C10_Witness ==
    /\ last.op = "request" /\ last.auto_refresh
    /\ last.exc = "SharkIqNotAuthedError"
    /\ api._access_token # None /\ ~api._is_authed

\* C11: every HTTP call that request issues carries the header
\* Authorization: auth_token <the access token the session holds when it is sent>,
\* also when the caller's headers hold an Authorization header of their own, and
\* every other header of the caller is kept.
C11_AuthHeaderAlwaysSent ==
    last.op = "request"
    => \A i \in DOMAIN last.http :
          last.http[i].endpoint = "api"
          => /\ api._access_token # None
             /\ "Authorization" \in DOMAIN last.http[i].headers
             /\ last.http[i].headers["Authorization"] = <<"auth_token ", api._access_token[1]>>
             /\ last.headers # None
                => \A k \in DOMAIN last.headers[1] \ {"Authorization"} :
                      /\ k \in DOMAIN last.http[i].headers
                      /\ last.http[i].headers[k] = last.headers[1][k]

C11_Witness ==
    /\ last.op = "request" /\ Len(last.http) = 1
    /\ last.headers # None
    /\ "Authorization" \in DOMAIN last.headers[1]
    /\ last.headers[1]["Authorization"] # last.http[1].headers["Authorization"]
    /\ last.http[1].headers["Accept"] = <<"application/json">>

\* The cached entry of the name carries a true read_only flag.
FlaggedReadOnly(self, property_name) ==
    /\ property_name \in DOMAIN self.properties_full
    /\ "read_only" \in DOMAIN self.properties_full[property_name]
    /\ self.properties_full[property_name]["read_only"] = TRUE

\* C12: set_property_value on a property whose cached entry is flagged
\* read-only raises SharkIqReadOnlyPropertyError, makes no HTTP call and leaves
\* the property cache as it was.
C12_ReadOnlyRejectedBeforeAnyCall ==
    [][(last'.op = "set_property_value" /\ FlaggedReadOnly(vac, last'.property_name))
       => /\ last'.exc = "SharkIqReadOnlyPropertyError"
          /\ last'.http = << >>
          /\ vac'.properties_full = vac.properties_full]_vars

C12_Witness ==
    /\ last.op = "set_property_value"
    /\ last.exc = "SharkIqReadOnlyPropertyError"
    /\ FlaggedReadOnly(vac, last.property_name)
    /\ api._is_authed

\* The error a call ended with, the vacuum after it and the HTTP calls it made.
Outcome(r) == <<r.exc, r.self, r.http>>

\* C13: set_property_value and set_property_value_async are one contract: for
\* every cache the vacuum holds, every name, value and answer of the server,
\* both end with the same error or the same cache, and make the same HTTP
\* calls, a property flagged read-only included.
C13_SyncAndAsyncSetAgree ==
    \A property_name \in PropertyNames, value \in PropertyValues, resp \in DatapointReplies :
        Outcome(set_property_value(vac, api, property_name, value, NoReply, resp))
            = Outcome(set_property_value_async(vac, api, property_name, value, NoReply, resp))

\* The properties a properties.json answer reports.
Reported(resp) == {resp.json[i].property : i \in DOMAIN resp.json}

FullUpdate(call) == call.op = "update" /\ call.property_list = None /\ call.exc = NoExc

PartialUpdate(call) == call.op = "update" /\ call.property_list # None /\ call.exc = NoExc

\* C14: after a full update() the property cache holds exactly the entries
\* built from the server's answer: every entry is a reported property under
\* its cleaned name, every reported property other than a bare SET has its
\* entry, and a key cached before that the answer does not report is gone.
C14_FullUpdateReplacesCache ==
    [][FullUpdate(last')
       => /\ \A k \in DOMAIN vac'.properties_full :
                \E p \in Reported(last'.resp) :
                    _clean_property_name(p.name) = k /\ vac'.properties_full[k] = p
          /\ \A p \in Reported(last'.resp) :
                upper(p.name) # SET => _clean_property_name(p.name) \in DOMAIN vac'.properties_full
          /\ \A k \in DOMAIN vac.properties_full :
                k \notin {_clean_property_name(p.name) : p \in Reported(last'.resp)}
                => k \notin DOMAIN vac'.properties_full]_vars

\* A full update answered with two entries, after which the cache holds the
\* one key P, with the entry the answer reported as SET_P.
C14_Witness ==
    /\ FullUpdate(last)
    /\ Len(last.resp.json) = 2
    /\ DOMAIN vac.properties_full = {P}
    /\ vac.properties_full[P].value = 3

\* The cache keys of the properties an answer reports.
ReportedKeys(resp) == {_clean_property_name(p.name) : p \in Reported(resp)}

\* C15: a partial update(names) leaves every cached entry whose key is not
\* among the properties returned for the call in the cache, with the contents
\* it had.
C15_PartialUpdateKeepsOtherEntries ==
    [][PartialUpdate(last')
       => \A k \in DOMAIN vac.properties_full \ ReportedKeys(last'.resp) :
             /\ k \in DOMAIN vac'.properties_full
             /\ vac'.properties_full[k] = vac.properties_full[k]]_vars

\* A partial update that reported P, with the entries of SET_P and Get, which
\* it did not report, still cached.
C15_Witness ==
    /\ PartialUpdate(last)
    /\ ReportedKeys(last.resp) = {P}
    /\ {SET_P, Get_bare} \subseteq DOMAIN vac.properties_full
    /\ vac.properties_full[SET_P] # << >>

\* The settable names an answer reports: the cleaned names of those that begin
\* with SET.
ObservedSettable(resp) ==
    {_clean_property_name(p.name) : p \in {q \in Reported(resp) : upper(Head_(q.name, 3)) = SET}}

\* C16: over partial updates the set of known-settable names never shrinks:
\* after each partial update it is the union of the set before and the
\* settable names the answer reported.
C16_SettableNeverShrinksOnPartialUpdate ==
    [][(PartialUpdate(last') /\ vac._settable_properties # None)
       => /\ vac'._settable_properties # None
          /\ vac._settable_properties[1] \subseteq vac'._settable_properties[1]
          /\ vac'._settable_properties[1]
                = vac._settable_properties[1] \cup ObservedSettable(last'.resp)]_vars

\* A partial update that reported no settable name, after which the set still
\* holds P and Set.
C16_Witness ==
    /\ PartialUpdate(last)
    /\ ObservedSettable(last.resp) = {}
    /\ last.resp.json # << >>
    /\ vac._settable_properties = Some({P, Set_bare})

\* C17: after any sequence of update, get_property_value and
\* set_property_value calls no key of the property cache begins with SET_ or
\* GET_ in any letter case: a name loses that prefix before it is stored.
C17_NoCacheKeyKeepsItsPrefix ==
    \A k \in DOMAIN vac.properties_full : upper(Head_(k, 4)) \notin {SET_, GET_}

GET == <<"G", "E", "T">>

SuccessfulUpdate(call) == call.op = "update" /\ call.exc = NoExc

\* C18: a property the server reports under the name of a bare SET or a bare
\* GET, in any letter case, is not a key of the property cache after the update.
C18_BareSetOrGetIsNeverCached ==
    SuccessfulUpdate(last)
    => \A p \in Reported(last.resp) :
          upper(p.name) \in {SET, GET} => p.name \notin DOMAIN vac.properties_full

\* C19: for every name N that the answer to an update reports as SET_N, alone
\* or together with an entry named N, the cache afterwards has the key N with
\* a value the answer reports for it, and the settable names contain N.
C19_SetEntryIsCachedAndSettable ==
    SuccessfulUpdate(last)
    => \A p \in Reported(last.resp) :
          upper(Head_(p.name, 4)) = SET_
          => LET N == Tail_(p.name, 4) IN
             /\ N \in DOMAIN vac.properties_full
             /\ vac.properties_full[N].value
                   \in {q.value : q \in {r \in Reported(last.resp) : r.name \in {p.name, N}}}
             /\ vac._settable_properties # None
             /\ N \in vac._settable_properties[1]

\* An update whose answer reported SET_P and then P.
C19_Witness ==
    /\ SuccessfulUpdate(last)
    /\ Len(last.resp.json) = 2
    /\ last.resp.json[1].property.name = SET_P
    /\ last.resp.json[2].property.name = P
    /\ vac.properties_full[P].value = 2
    /\ P \in vac._settable_properties[1]

\* C20: get_property_value, and the property_values view it reads, never
\* changes the property cache: reading a name that is not cached returns no
\* value and makes no entry.
C20_ReadLeavesCacheAlone ==
    [][last'.op = "get_property_value"
       => /\ vac'.properties_full = vac.properties_full
          /\ last'.property_name \notin DOMAIN vac.properties_full => last'.returned = None]_vars

ApiCalls(http) == {i \in DOMAIN http : http[i].endpoint = "api"}

\* The refresh that got this answer failed: no answer came, or a body without
\* one of the three keys.
RefreshFailed(resp) ==
    /\ resp # NoReply
    /\ \/ resp.raised # NoExc
       \/ {"access_token", "refresh_token", "expires_in"} \ DOMAIN resp.json # {}

\* A call that made the HTTP calls http, whose refresh got the answer
\* refresh_resp, and that ended with exc, made each call at most once and did
\* not go on after a failed refresh.
NoRetry(http, refresh_resp, exc) ==
    /\ Cardinality(Refreshes(http)) <= 1
    /\ Cardinality(ApiCalls(http)) <= 1
    /\ (Refreshes(http) # {} /\ RefreshFailed(refresh_resp))
       => /\ exc = IF refresh_resp.raised # NoExc THEN refresh_resp.raised ELSE "KeyError"
          /\ Len(http) = 1

\* C21: a call of request or of async_request issues the original HTTP call at
\* most once and refreshes at most once; when the refresh fails its error
\* reaches the caller, the original call is not issued and nothing is tried
\* again.
C21_OneRefreshAndNoRetry ==
    /\ \A t \in TaskIds : NoRetry(tasks[t].http, tasks[t].refresh_resp, tasks[t].exc)
    /\ \A refresh_resp \in SharkiqReplies, resp \in ApiReplies :
          NoRetry(sharkiq_request(api, None, refresh_resp, resp).http, refresh_resp,
                  sharkiq_request(api, None, refresh_resp, resp).exc)

\* A coroutine whose refresh got no answer and one whose refresh got a body
\* without its refresh token: both ended with the error, after the one call.
C21_Witness ==
    /\ tasks[1].pc = "done" /\ tasks[1].refresh_resp = ConnectionError
    /\ tasks[1].exc = "ConnectionError" /\ Len(tasks[1].http) = 1
    /\ tasks[2].pc = "done" /\ tasks[2].exc = "KeyError" /\ Len(tasks[2].http) = 1

\* The value of the cached Error_Code: None when there is none.
CachedErrorCode(self) ==
    IF Error_Code \in DOMAIN self.properties_full
    THEN Get(self.properties_full[Error_Code], "value")
    ELSE None

\* The number a sequence of decimal digits writes.
RECURSIVE Decimal(_)
Decimal(s) ==
    IF s = << >> THEN 0
    ELSE 10 * Decimal(SubSeq(s, 1, Len(s) - 1))
         + (CHOOSE d \in 0..9 : DIGITS[d + 1] = s[Len(s)])

\* C22: error_text maps the cached Error_Code through the table: a code of
\* the table gives the table's text, another code that is not zero gives
\* "Unknown error (N)" where N writes the code, and no code or zero gives no
\* text.
C22_ErrorTextFollowsTable ==
    [][last'.op = "error_text"
       => LET err == CachedErrorCode(vac)
              text == last'.returned
          IN IF err = None \/ err = Some(0) THEN text = None
             ELSE IF err[1] \in DOMAIN ERROR_CODES THEN text = Some(ERROR_CODES[err[1]])
             ELSE /\ text # None
                  /\ Len(text[1]) >= 3
                  /\ Head(text[1]) = "Unknown error ("
                  /\ text[1][Len(text[1])] = ")"
                  /\ \A i \in 2..(Len(text[1]) - 1) : \E d \in 0..9 : DIGITS[d + 1] = text[1][i]
                  /\ Decimal(SubSeq(text[1], 2, Len(text[1]) - 1)) = err[1]]_vars

\* error_text has given the text of a code of two digits that the table lacks.
C22_Witness ==
    /\ last.op = "error_text"
    /\ CachedErrorCode(vac) = Some(28)
    /\ last.returned = Some(<<"Unknown error (", "2", "8", ")">>)

\* Two entries of the cache have the same fields with the same contents.
SameEntry(a, b) ==
    IF Cardinality(DOMAIN a) = 0 \/ Cardinality(DOMAIN b) = 0
    THEN Cardinality(DOMAIN a) = Cardinality(DOMAIN b)
    ELSE a = b

\* C23: a set_property_value(name, value) that succeeds on a property not
\* flagged read-only posts one datapoint write and merges the fields of the
\* answer into the cached entry of that property: the entry's other fields,
\* every other entry of the cache and the settable names stay as they were.
C23_WriteMergesIntoOneEntry ==
    [][(last'.op = "set_property_value" /\ last'.exc = NoExc)
       => LET name == last'.property_name
              before == IF name \in DOMAIN vac.properties_full
                        THEN vac.properties_full[name] ELSE << >>
          IN /\ ~FlaggedReadOnly(vac, name)
             /\ Len(last'.http) = 1 /\ ApiCalls(last'.http) = {1}
             /\ name \in DOMAIN vac'.properties_full
             /\ DOMAIN vac'.properties_full[name] = DOMAIN before \cup DOMAIN last'.resp.json
             /\ \A f \in DOMAIN last'.resp.json :
                   vac'.properties_full[name][f] = last'.resp.json[f]
             /\ \A f \in DOMAIN before \ DOMAIN last'.resp.json :
                   vac'.properties_full[name][f] = before[f]
             /\ DOMAIN vac'.properties_full \ {name} = DOMAIN vac.properties_full \ {name}
             /\ \A k \in DOMAIN vac.properties_full \ {name} :
                   SameEntry(vac'.properties_full[k], vac.properties_full[k])
             /\ vac'._settable_properties = vac._settable_properties]_vars

\* A write to P, whose entry an update had built from SET_P: the entry has the
\* value of the answer and the name and flag it had, beside the entry of Get.
C23_Witness ==
    /\ last.op = "set_property_value" /\ last.exc = NoExc /\ last.property_name = P
    /\ DOMAIN vac.properties_full = {P, Get_bare}
    /\ vac.properties_full[P] = [name |-> SET_P, value |-> 5, read_only |-> FALSE]
    /\ vac._settable_properties = Some({P})

\* The coroutine t has got the answer to its refresh in this step.
Resumed(t) == Awaiting(tasks[t]) /\ tasks'[t].pc = "done"

\* The coroutine has made its refresh and then the original call, with the
\* access token the session self holds.
RefreshedThenSent(task, self) ==
    /\ Len(task.http) = 2
    /\ Refreshes(task.http) = {1}
    /\ ApiCalls(task.http) = {2}
    /\ self._access_token # None
    /\ task.http[2].headers["Authorization"] = <<"auth_token ", self._access_token[1]>>

\* C24, as stated: when two async_request calls on one session interleave at
\* their awaits and both find the token expired, each makes its own refresh,
\* one per call, and both original requests are then issued with the access
\* token the session holds when they are sent.
C24_BothRefreshThenBothSend ==
    [][\A t \in TaskIds :
          (Resumed(t) /\ tasks'[t].overlapped) => RefreshedThenSent(tasks'[t], api')]_vars

\* C24, with its condition: each of the two calls makes its own refresh, one
\* per call, and a call whose refresh is answered with credentials then
\* issues its original request with the access token the session holds when
\* it is sent; a call whose refresh fails ends with the error, its original
\* request not issued.
C24_EachRefreshesAndSendsIfRefreshed ==
    [][\A t \in TaskIds :
          (Resumed(t) /\ tasks'[t].overlapped)
          => /\ Cardinality(Refreshes(tasks'[t].http)) = 1
             /\ IF RefreshFailed(tasks'[t].refresh_resp)
                THEN tasks'[t].exc # NoExc /\ ApiCalls(tasks'[t].http) = {}
                ELSE /\ RefreshedThenSent(tasks'[t], api')
                     /\ api'._access_token = Some(tasks'[t].refresh_resp.json["access_token"])]_vars

\* Both calls waited for their refreshes at once, both had posted the refresh
\* token R1, and each then sent its request with the token of its own answer.
C24_Witness ==
    /\ \A t \in TaskIds :
          /\ tasks[t].pc = "done" /\ tasks[t].overlapped /\ Len(tasks[t].http) = 2
          /\ tasks[t].http[1].json = [refresh_token |-> Some("R1")]
    /\ tasks[1].http[2].headers["Authorization"] = <<"auth_token ", "T2">>
    /\ tasks[2].http[2].headers["Authorization"] = <<"auth_token ", "T1">>

\* The name starts with the four characters SET_ or GET_, in any case.
HasPrefix(name) ==
    /\ Len(name) >= 4
    /\ name[1] \in {"S", "s", "G", "g"}
    /\ name[2] \in {"E", "e"}
    /\ name[3] \in {"T", "t"}
    /\ name[4] = "_"

\* C26: _clean_property_name takes exactly one leading SET_ or GET_ (in any
\* case) off a name, gives every other name back as it is, and gives a name
\* without such a prefix back as it is when applied again.
C26_CleanStripsOnePrefix ==
    last.op = "_clean_property_name"
    => LET name == last.raw_property_name
       IN /\ HasPrefix(name) => /\ Len(last.value) = Len(name) - 4
                                /\ \A i \in 1..Len(last.value) : last.value[i] = name[i + 4]
          /\ ~HasPrefix(name) => /\ last.value = name
                                 /\ _clean_property_name(last.value) = last.value

\* SET_SET_P has become SET_P: one prefix is gone, the next one is kept.
C26_Witness ==
    /\ last.op = "_clean_property_name"
    /\ last.raw_property_name = SET_ \o SET_P
    /\ last.value = SET_P

\* C27: a sign_in or refresh_auth that raises leaves the access token, the
\* refresh token, the expiry and the authenticated flag of the session as they
\* were before the call.
C27_RaisingAuthLeavesCredentials ==
    [][(last'.op \in {"sign_in", "refresh_auth"} /\ last'.exc # NoExc)
       => /\ api'._access_token = api._access_token
          /\ api'._refresh_token = api._refresh_token
          /\ api'._auth_expiration = api._auth_expiration
          /\ api'._is_authed = api._is_authed]_vars

\* C28: a name in the settable set is never rejected as read-only by
\* set_property_value: whatever the updates before reported for it, and in
\* whatever order, a set_property_value on it on a signed-in session posts the
\* write.
C28_SettableIsNeverRejected ==
    [][(/\ last'.op = "set_property_value"
        /\ vac._settable_properties # None
        /\ last'.property_name \in vac._settable_properties[1])
       => /\ last'.exc # "SharkIqReadOnlyPropertyError"
          /\ SignedIn(api) => Len(last'.http) = 1]_vars

\* The vacuum d after the step.
DeviceAfter(d) == IF d = 1 THEN vac' ELSE vac2'

\* What the call of the coroutine gives when it runs on the vacuum self with
\* nothing else in between.
RunAlone(task, self, resp) ==
    IF task.op = "async_update"
    THEN update(self, api, IF task.full_update THEN None ELSE Some(<<P>>), NoReply, resp).self
    ELSE set_property_value_async(self, api, task.property_name, 5, NoReply, resp).self

\* C25: with async_update and set_property_value_async calls interleaved on
\* two vacuums of one session, a step of a call on one vacuum leaves the cache
\* and the settable set of the other vacuum as they are, and a call that ends
\* leaves its own vacuum as the same call run alone on it does; its first
\* step leaves its vacuum as it is.
C25_DevicesDoNotInterfere ==
    [][\A d \in Devices :
          last'.device = d
          => /\ DeviceAfter(3 - d) = Device(3 - d)
             /\ IF InFlight(tasks[d])
                THEN DeviceAfter(d) = RunAlone(tasks[d], Device(d), last'.resp)
                ELSE DeviceAfter(d) = Device(d)]_vars

\* A call on the second vacuum has ended with its answer in the cache while a
\* call on the first one, whose cache is another, is awaiting its answer.
C25_Witness ==
    /\ last.device = 2 /\ last.op = "async_update" /\ last.exc = NoExc
    /\ last.resp.raised = NoExc
    /\ InFlight(tasks[1])
    /\ P \in DOMAIN vac2.properties_full
    /\ P \in DOMAIN vac.properties_full
    /\ vac.properties_full[P] # vac2.properties_full[P]

=============================================================================
